---- MODULE Spec2Model ----
(***************************************************************************)
(* A model of src/app.py: the response normalizer parse_ai_response, the   *)
(* quiz session (display_interactive_quiz), the sidebar history log, the   *)
(* PDF upload section and the auto-generated topic quiz section.           *)
(*                                                                         *)
(* Text is a sequence of chunks.  A chunk is a fixed run of characters:    *)
(* the fence marker (three backticks), the word json, one whitespace       *)
(* character, one punctuation character of JSON, a double quote, a JSON    *)
(* literal or a word.  Python values are tagged records.                   *)
(***************************************************************************)
EXTENDS Integers, Sequences, FiniteSets, TLC

(***************************************************************************)
(* Python / JSON values                                                    *)
(***************************************************************************)
None == [t |-> "none"]
Num(n) == [t |-> "num", n |-> n]
Str(s) == [t |-> "str", s |-> s]
List(xs) == [t |-> "list", xs |-> xs]
Dict(kv) == [t |-> "dict", kv |-> kv]
\* one key/value entry of a dict; a key is the chunk content of a string
Item(k, v) == [k |-> k, v |-> v]

IsList(x) == x.t = "list"
IsDict(x) == x.t = "dict"
IsStr(x) == x.t = "str"

\* the set of indexes of d.kv holding key k (at most one)
KeyIndexes(d, k) == {i \in 1..Len(d.kv) : d.kv[i].k = k}
\* k in d
HasKey(d, k) == KeyIndexes(d, k) # {}
\* d.get(k, default)
Get(d, k, default) ==
    IF HasKey(d, k) THEN d.kv[CHOOSE i \in KeyIndexes(d, k) : TRUE].v ELSE default
\* d[k] = v : a key already present keeps its position, a new key goes last
Put(d, k, v) ==
    IF HasKey(d, k)
    THEN Dict([i \in 1..Len(d.kv) |-> IF d.kv[i].k = k THEN Item(k, v) ELSE d.kv[i]])
    ELSE Dict(Append(d.kv, Item(k, v)))
\* list(d.values())
Values(d) == [i \in 1..Len(d.kv) |-> d.kv[i].v]
\* Python truthiness of a value: bool(x)
Truthy(x) ==
    CASE x.t = "none" -> FALSE
      [] x.t = "num" -> x.n # 0
      [] x.t = "str" -> Len(x.s) > 0
      [] x.t = "list" -> Len(x.xs) > 0
      [] x.t = "dict" -> Len(x.kv) > 0
      [] x.t = "bool" -> x.b
      [] OTHER -> TRUE

(***************************************************************************)
(* Text.  Chunks are named: FENCE is the three backticks, QUOTE the double  *)
(* quote, SP a space, NL a newline; every other chunk is its own text.     *)
(***************************************************************************)
FENCE == "FENCE"
TAG == "json"
SP == "SP"
NL == "NL"
QUOTE == "QUOTE"
Whitespace == {SP, NL}
\* the two markers parse_ai_response looks for
JsonFence == <<FENCE, TAG>>
GenericFence == <<FENCE>>

\* sub occurs in text at position i
MatchAt(text, sub, i) ==
    /\ i + Len(sub) - 1 <= Len(text)
    /\ \A j \in 1..Len(sub) : text[i + j - 1] = sub[j]
\* text.find(sub, start): the first position >= start, 0 when there is none
\* (positions count from 1, so 0 stands for -1 in Python)
Least(hits) == IF hits = {} THEN 0 ELSE CHOOSE i \in hits : \A j \in hits : i <= j
Find(text, sub, start) == Least({i \in start..Len(text) : MatchAt(text, sub, i)})
\* sub in text
Contains(text, sub) == Find(text, sub, 1) # 0
\* text.strip()
Span(text, keep) ==
    IF keep = {} THEN <<>>
    ELSE SubSeq(text, CHOOSE i \in keep : \A j \in keep : i <= j,
                      CHOOSE i \in keep : \A j \in keep : j <= i)
Strip(text) == Span(text, {i \in 1..Len(text) : text[i] \notin Whitespace})

(***************************************************************************)
(* json.loads: the strict parse, over chunks.  The literals of the model   *)
(* are null and the one-digit numbers 0 and 1; a string runs from a QUOTE  *)
(* to the next QUOTE and may hold any chunk but a newline.                 *)
(***************************************************************************)
NumberOf == ("0" :> 0) @@ ("1" :> 1)
Fail == [ok |-> FALSE, val |-> None, pos |-> 0]
Ok(v, p) == [ok |-> TRUE, val |-> v, pos |-> p]
\* the first position >= i that holds no whitespace, Len(t) + 1 when none does
LeastOr(stop, none) ==
    IF stop = {} THEN none ELSE CHOOSE j \in stop : \A m \in stop : j <= m
SkipWs(t, i) == LeastOr({j \in i..Len(t) : t[j] \notin Whitespace}, Len(t) + 1)
\* a string literal whose opening QUOTE is at i and whose closing one is at j
StringTo(t, i, j) ==
    IF j = 0 \/ (\E m \in (i + 1)..(j - 1) : t[m] = NL)
    THEN Fail
    ELSE Ok(Str(SubSeq(t, i + 1, j - 1)), j + 1)
ParseString(t, i) == StringTo(t, i, Find(t, <<QUOTE>>, i + 1))

RECURSIVE ParseValue(_, _)
RECURSIVE ParseElements(_, _, _)
RECURSIVE ParseMembers(_, _, _)
\* after an element v of an array, with k the next position that is no whitespace
ElementsNext(t, v, k, acc) ==
    IF k > Len(t) THEN Fail
    ELSE IF t[k] = "," THEN ParseElements(t, k + 1, Append(acc, v))
    ELSE IF t[k] = "]" THEN Ok(List(Append(acc, v)), k + 1)
    ELSE Fail
ElementsAfter(t, e, acc) ==
    IF ~e.ok THEN Fail ELSE ElementsNext(t, e.val, SkipWs(t, e.pos), acc)
\* the elements of an array from position i, acc the elements read so far
ParseElements(t, i, acc) == ElementsAfter(t, ParseValue(t, i), acc)
\* after the member key: v of an object, with k the next position that is no
\* whitespace
MembersNext(t, key, v, k, acc) ==
    IF k > Len(t) THEN Fail
    ELSE IF t[k] = "," THEN ParseMembers(t, k + 1, Put(acc, key, v))
    ELSE IF t[k] = "}" THEN Ok(Put(acc, key, v), k + 1)
    ELSE Fail
MembersAfterValue(t, key, e, acc) ==
    IF ~e.ok THEN Fail ELSE MembersNext(t, key, e.val, SkipWs(t, e.pos), acc)
\* after the key of a member, with c the next position that is no whitespace
MembersColon(t, key, c, acc) ==
    IF c > Len(t) \/ t[c] # ":" THEN Fail
    ELSE MembersAfterValue(t, key, ParseValue(t, c + 1), acc)
MembersAfterKey(t, key, acc) ==
    IF ~key.ok THEN Fail ELSE MembersColon(t, key.val.s, SkipWs(t, key.pos), acc)
MembersAt(t, q, acc) ==
    IF q > Len(t) \/ t[q] # QUOTE THEN Fail
    ELSE MembersAfterKey(t, ParseString(t, q), acc)
\* the members of an object from position i, acc the dict read so far
ParseMembers(t, i, acc) == MembersAt(t, SkipWs(t, i), acc)
\* an array whose "[" is followed, whitespace aside, by position k
ArrayAt(t, k) ==
    IF k <= Len(t) /\ t[k] = "]" THEN Ok(List(<<>>), k + 1)
    ELSE ParseElements(t, k, <<>>)
\* an object whose "{" is followed, whitespace aside, by position k
ObjectAt(t, k) ==
    IF k <= Len(t) /\ t[k] = "}" THEN Ok(Dict(<<>>), k + 1)
    ELSE ParseMembers(t, k, Dict(<<>>))
\* the value that starts at position i, which holds no whitespace
ValueAt(t, i) ==
    IF i > Len(t) THEN Fail
    ELSE IF t[i] = "null" THEN Ok(None, i + 1)
    ELSE IF t[i] \in DOMAIN NumberOf THEN Ok(Num(NumberOf[t[i]]), i + 1)
    ELSE IF t[i] = QUOTE THEN ParseString(t, i)
    ELSE IF t[i] = "[" THEN ArrayAt(t, SkipWs(t, i + 1))
    ELSE IF t[i] = "{" THEN ObjectAt(t, SkipWs(t, i + 1))
    ELSE Fail
ParseValue(t, i) == ValueAt(t, SkipWs(t, i))
\* json.loads(s): one value and nothing but whitespace after it
WholeText(s, r) == IF r.ok /\ SkipWs(s, r.pos) > Len(s) THEN r ELSE Fail
json_loads(s) == WholeText(s, ParseValue(s, 1))

(***************************************************************************)
(* parse_ai_response                                                       *)
(***************************************************************************)
K_QUESTIONS == <<"questions">>
\* {"questions": []}
EmptyQuiz == Dict(<<Item(K_QUESTIONS, List(<<>>))>>)
\* repair_json raised
Raised == [t |-> "raised"]

\* response_text[start:end].strip(), end being the next fence marker from start
\* on (found), or the end of the text when there is none
FencedText(response_text, start, found) ==
    Strip(SubSeq(response_text, start,
                 (IF found = 0 THEN Len(response_text) + 1 ELSE found) - 1))
AfterMarker(response_text, start) ==
    FencedText(response_text, start, Find(response_text, GenericFence, start))
\* lines 115-127: the text handed to the parser
extract_json_str(response_text) ==
    IF Contains(response_text, JsonFence)
    THEN AfterMarker(response_text, Find(response_text, JsonFence, 1) + Len(JsonFence))
    ELSE IF Contains(response_text, GenericFence)
    THEN AfterMarker(response_text,
                     Find(response_text, GenericFence, 1) + Len(GenericFence))
    ELSE Strip(response_text)

\* a normalization that takes no questions from a dict without the key
normalize_shape_keyed_only(parsed) ==
    IF IsList(parsed) THEN Dict(<<Item(K_QUESTIONS, parsed)>>)
    ELSE IF IsDict(parsed) /\ HasKey(parsed, K_QUESTIONS) THEN parsed
    ELSE EmptyQuiz
\* lines 134-139: the shape normalization of a parsed value
normalize_shape(parsed) ==
    IF IsList(parsed) THEN Dict(<<Item(K_QUESTIONS, parsed)>>)
    ELSE IF IsDict(parsed)
         THEN IF HasKey(parsed, K_QUESTIONS) THEN parsed
              ELSE Dict(<<Item(K_QUESTIONS,
                              IF Truthy(parsed) THEN List(Values(parsed)) ELSE List(<<>>))>>)
    ELSE EmptyQuiz

\* lines 129-132: the strict parse, and on its failure what repair_json gave
\* (repaired: the value repair_json returns for this text, or Raised)
StrictOr(strict, repaired) == IF strict.ok THEN strict.val ELSE repaired
parsed_value(json_str, repaired) == StrictOr(json_loads(json_str), repaired)

\* lines 134-141: a parse that raised gives the empty quiz
Returned(parsed) == IF parsed = Raised THEN EmptyQuiz ELSE normalize_shape(parsed)
\* parse_ai_response(response_text), repair_json(json_str) giving repaired.
\* A value that is no text has no strip(): the outer except returns the empty quiz.
parse_ai_response(response_text, repaired) ==
    IF ~IsStr(response_text) THEN EmptyQuiz
    ELSE Returned(parsed_value(extract_json_str(response_text.s), repaired))

(***************************************************************************)
(* Session state: a dict from keys to values.  A key is a sequence of      *)
(* words: the f-string key f"{key_prefix}_user_answers" of the prefix      *)
(* "auto" is <<"auto", "user_answers">>, and the quiz key f"pdf_{hash}"    *)
(* is <<"pdf", hash>>.                                                     *)
(***************************************************************************)
Bool(b) == [t |-> "bool", b |-> b]
K_HISTORY == <<"quiz_history">>
AUTO == <<"auto">>
PdfKey(file_hash) == <<"pdf", file_hash>>
UserAnswersKey(key_prefix) == Append(key_prefix, "user_answers")
SubmittedKey(key_prefix) == Append(key_prefix, "submitted")
K_AUTO_TOPIC == Append(AUTO, "topic")
K_AUTO_QUIZ == Append(AUTO, "quiz")

\* key in st.session_state
InState(ss, key) == key \in DOMAIN ss
\* st.session_state[key] = value
SetKey(ss, key, value) == [k \in DOMAIN ss \cup {key} |-> IF k = key THEN value ELSE ss[k]]
\* st.session_state.pop(key, None)
PopKey(ss, key) == [k \in DOMAIN ss \ {key} |-> ss[k]]
\* st.session_state.get(key, default)
StateGet(ss, key, default) == IF InState(ss, key) THEN ss[key] ELSE default

(***************************************************************************)
(* display_interactive_quiz                                                *)
(***************************************************************************)
K_TYPE == <<"type">>
K_OPTIONS == <<"options">>
K_ANSWER == <<"answer">>
MCQ == Str(<<"MCQ">>)
TRUE_FALSE == Str(<<"True/False">>)
PyTrue == Str(<<"True">>)
PyFalse == Str(<<"False">>)
\* the option count line 221 asks of an MCQ
McqOptionCount == 4
\* line 230: the options of the radio of a True/False question
TrueFalseOptions == <<PyTrue, PyFalse>>

\* decimal numerals of the counts the model reaches
Numeral(n) == <<"0", "1", "2", "3", "4", "5", "6", "7", "8", "9">>[n + 1]
\* f"{correct_count}/{len(questions)}"
ScoreStr(correct_count, n) == Str(<<Numeral(correct_count), "/", Numeral(n)>>)

\* a widget event of the run: none, a button press, or a new radio selection
NoEvent == [kind |-> "none"]
ClearPress == [kind |-> "clear"]
NewTopicPress == [kind |-> "new_topic"]
SubmitPress(key_prefix) == [kind |-> "submit", prefix |-> key_prefix]
Select(key_prefix, i, option) ==
    [kind |-> "select", prefix |-> key_prefix, i |-> i, option |-> option]

\* what one call of display_interactive_quiz put on the page
NotRendered ==
    [status |-> "none", prefix |-> <<>>, radios |-> {}, choices |-> <<>>,
     submit |-> FALSE, feedback |-> FALSE, correct |-> {}, score |-> <<>>]
View(status, key_prefix) == [NotRendered EXCEPT !.status = status, !.prefix = key_prefix]

\* the items a for loop over x visits: a list's elements, a string's characters,
\* a dict's keys
Elements(x) ==
    CASE x.t = "list" -> x.xs
      [] x.t = "str" -> [i \in 1..Len(x.s) |-> Str(<<x.s[i]>>)]
      [] x.t = "dict" -> [i \in 1..Len(x.kv) |-> Str(x.kv[i].k)]
      [] OTHER -> <<>>
\* len(x) and iterating x raise TypeError
Unsized(x) == x.t \notin {"list", "str", "dict"}
\* the body of the loop of lines 214-232 raises on q: q.get of a value that is
\* no dict, or the option handling of an MCQ whose options are no list
LoopRaises(q) ==
    \/ ~IsDict(q)
    \/ /\ Get(q, K_TYPE, None) = MCQ
       /\ ~IsList(Get(q, K_OPTIONS, List(<<>>)))
\* the options of the answer widget of q, <<>> when the loop renders none for it
WidgetOptions(q) ==
    LET options == Get(q, K_OPTIONS, List(<<>>))
    IN IF Get(q, K_TYPE, None) = MCQ /\ Len(options.xs) = McqOptionCount THEN options.xs
       ELSE IF Get(q, K_TYPE, None) = TRUE_FALSE THEN TrueFalseOptions
       ELSE <<>>
\* lines 221-231: what st.radio returns for question i. A selection made by the
\* user in this run is the widget value; otherwise it is the option at the index
\* the code passes: the stored answer when it is among the options, else the first
Selected(q, stored, ev, key_prefix, i) ==
    LET opts == WidgetOptions(q)
        among == \E j \in 1..Len(opts) : opts[j] = stored
    IN IF ev.kind = "select" /\ ev.prefix = key_prefix /\ ev.i = i THEN ev.option
       ELSE IF among THEN stored
       ELSE opts[1]
\* a tally that skips the questions left unanswered
correct_count_answered(questions, user_answers) ==
    Cardinality({i \in 1..Len(questions) :
                    /\ user_answers[i] # None
                    /\ user_answers[i] = Get(questions[i], K_ANSWER, Str(<<>>))})
\* lines 237-242: correct_count of the submission
correct_count(questions, user_answers) ==
    Cardinality({i \in 1..Len(questions) :
                    user_answers[i] = Get(questions[i], K_ANSWER, Str(<<>>))})
\* lines 253-260: the indexes the feedback marks correct
CorrectIndexes(questions, user_answers) ==
    {i \in 1..Len(questions) :
        user_answers[i] = Get(questions[i], K_ANSWER, Str(<<>>))}
\* lines 245-250
Attempt(quiz_type, topic, score_str, now) ==
    Dict(<<Item(<<"type">>, Str(<<quiz_type>>)), Item(<<"topic">>, topic),
           Item(<<"score">>, score_str), Item(<<"time">>, Str(<<now>>))>>)

\* display_interactive_quiz(quiz_data, key_prefix, topic, quiz_type) in session
\* state ss, in a run triggered by ev, at wall-clock time now: the session state
\* after it, what it rendered, and whether it raised
display_interactive_quiz(ss, ev, quiz_data, key_prefix, topic, quiz_type, now) ==
    IF ~IsDict(quiz_data) THEN [ss |-> ss, view |-> View("error", key_prefix), raised |-> FALSE]
    ELSE
    LET questions == Get(quiz_data, K_QUESTIONS, List(<<>>))
    IN IF ~Truthy(questions)
       THEN [ss |-> ss, view |-> View("warning", key_prefix), raised |-> FALSE]
       ELSE IF Unsized(questions)
       THEN [ss |-> ss, view |-> View("exception", key_prefix), raised |-> TRUE]
       ELSE
       LET qs == Elements(questions)
           n == Len(qs)
           ss1 == IF InState(ss, UserAnswersKey(key_prefix)) THEN ss
                  ELSE SetKey(ss, UserAnswersKey(key_prefix), List([i \in 1..n |-> None]))
           old == ss1[UserAnswersKey(key_prefix)].xs
           bad == {i \in 1..n : LoopRaises(qs[i])}
           stop == IF bad = {} THEN n + 1 ELSE CHOOSE i \in bad : \A j \in bad : i <= j
           radios == {i \in 1..(stop - 1) : WidgetOptions(qs[i]) # <<>>}
           user_answers ==
               [i \in 1..n |-> IF i \in radios
                               THEN Selected(qs[i], old[i], ev, key_prefix, i)
                               ELSE old[i]]
           ss2 == SetKey(ss1, UserAnswersKey(key_prefix), List(user_answers))
           choices == [i \in 1..n |-> IF i \in radios THEN WidgetOptions(qs[i]) ELSE <<>>]
       IN IF stop <= n
          THEN [ss |-> ss2,
                view |-> [View("exception", key_prefix) EXCEPT !.radios = radios,
                                                               !.choices = choices],
                raised |-> TRUE]
          ELSE
          LET pressed == ev.kind = "submit" /\ ev.prefix = key_prefix
              score_str == ScoreStr(correct_count(qs, user_answers), n)
              correct == CorrectIndexes(qs, user_answers)
              ss3 == IF pressed
                     THEN SetKey(SetKey(ss2, SubmittedKey(key_prefix), Bool(TRUE)),
                                 K_HISTORY,
                                 List(Append(ss2[K_HISTORY].xs,
                                             Attempt(quiz_type, topic, score_str, now))))
                     ELSE ss2
              feedback == Truthy(StateGet(ss3, SubmittedKey(key_prefix), Bool(FALSE)))
          IN [ss |-> ss3,
              view |-> [status |-> "quiz", prefix |-> key_prefix, radios |-> radios,
                        choices |-> choices, submit |-> TRUE, feedback |-> feedback,
                        correct |-> IF feedback THEN correct ELSE {},
                        score |-> IF feedback THEN ScoreStr(Cardinality(correct), n).s
                                  ELSE <<>>],
              raised |-> FALSE]

(***************************************************************************)
(* The environment: topics, documents, the responses of the generative     *)
(* model and what repair_json makes of a text the strict parse rejects     *)
(***************************************************************************)
CS_TOPICS ==
    <<"Object-Oriented Programming (OOP) in Java",
      "Introduction to Cloud Computing",
      "Fundamentals of Computer Networking",
      "SQL and Relational Database Design",
      "Data Strucctures Algorithms",
      "Responsive Web Applications",
      "Automata Theory",
      "Software Engineering and Project Management">>
\* how many of the topics of CS_TOPICS random.choice draws from in the model
NumTopics == 2
Topics == {Str(<<CS_TOPICS[i]>>) : i \in 1..NumTopics}

\* text[:8000]
TextLimit == 8000
\* an uploaded document: the hash of its bytes, whether pdfplumber opens it, and
\* what extract_text gives for each page (<<>>: nothing)
NoFile == [hash |-> "", readable |-> FALSE, pages |-> <<>>]
DocNotes == [hash |-> "a1b2c3d4", readable |-> TRUE, pages |-> <<<<"notes">>, <<>>>>]
DocSlides == [hash |-> "0f0f0f0f", readable |-> TRUE, pages |-> <<<<"slides">>>>]
DocScan == [hash |-> "deadbeef", readable |-> TRUE, pages |-> <<<<SP>>, <<>>>>]
DocBroken == [hash |-> "00000000", readable |-> FALSE, pages |-> <<>>]
Docs == {DocNotes, DocSlides, DocScan, DocBroken}

RECURSIVE PagesText(_, _)
\* lines 104-107: the text of the pages from page i on
PagesText(pages, i) ==
    IF i > Len(pages) THEN <<>>
    ELSE (IF pages[i] # <<>> THEN pages[i] \o <<NL>> ELSE <<>>) \o PagesText(pages, i + 1)
extract_text_from_pdf(pdf_file) ==
    IF ~pdf_file.readable THEN <<>>
    ELSE LET text == PagesText(pdf_file.pages, 1)
         IN SubSeq(text, 1, IF Len(text) < TextLimit THEN Len(text) ELSE TextLimit)

\* builders of response texts
Quoted(word) == <<QUOTE, word, QUOTE>>
Member(key, value_text) == Quoted(key) \o <<":", SP>> \o value_text
RECURSIVE Joined(_, _)
\* the texts of items from i on, separated by commas
Joined(items, i) ==
    IF i > Len(items) THEN <<>>
    ELSE IF i = Len(items) THEN items[i]
    ELSE items[i] \o <<",", SP>> \o Joined(items, i + 1)
ArrayText(items) == <<"[">> \o Joined(items, 1) \o <<"]">>
ObjectText(members) == <<"{">> \o Joined(members, 1) \o <<"}">>
QuestionText(type, options, answer_text) ==
    ObjectText(<<Member("type", Quoted(type)),
                 Member("options", ArrayText([i \in 1..Len(options) |-> Quoted(options[i])])),
                 Member("answer", answer_text)>>)
InJsonFence(text) == <<FENCE, TAG, NL>> \o text \o <<NL, FENCE>>
InGenericFence(text) == <<FENCE, NL>> \o text \o <<NL, FENCE>>

\* the format the prompt asks for: a fenced object, here with one MCQ
ResponseGood ==
    InJsonFence(ObjectText(<<Member("questions", ArrayText(<<
        QuestionText("MCQ", <<"A", "B", "C", "D">>, Quoted("B"))>>))>>))
\* a bare array whose questions have option lists of the wrong length
ResponseOdd ==
    ArrayText(<<QuestionText("MCQ", <<"A", "B", "C">>, <<"null">>),
                QuestionText("True/False", <<"True", "False", "Maybe">>, Quoted("True"))>>)
\* a generic fence around a bare array of one True/False question
ResponseShort ==
    InGenericFence(ArrayText(<<
        QuestionText("True/False", <<"True", "False">>, Quoted("False"))>>))
\* an object whose questions value is a number
ResponseScalar == ObjectText(<<Member("questions", <<"1">>)>>)
\* no JSON at all
ResponseProse == <<"not", SP, "json", SP, "at", SP, "all">>
Responses ==
    {Str(ResponseGood), Str(ResponseOdd), Str(ResponseShort), Str(ResponseScalar),
     Str(ResponseProse)}

\* what repair_json may return for a text that is no JSON, or Raised
RepairOutcomes ==
    {Str(<<>>), Raised, None, List(<<Num(1)>>), Dict(<<>>),
     Dict(<<Item(<<"a">>, Num(1)), Item(<<"b">>, None)>>),
     Dict(<<Item(K_QUESTIONS, List(<<Num(1)>>))>>)}

\* lines 180-185 and 193-198: model.generate_content raised (response = Raised) or
\* gave response.text
generate_quiz_from_text(response, repaired) ==
    IF response = Raised THEN EmptyQuiz ELSE parse_ai_response(response, repaired)
generate_quiz_from_topic(response, repaired) ==
    IF response = Raised THEN EmptyQuiz ELSE parse_ai_response(response, repaired)

(***************************************************************************)
(* The application.  Streamlit runs the whole script once per user         *)
(* interaction, and again at once when the script calls st.rerun().        *)
(***************************************************************************)
VARIABLES
    env,            \* the session's surroundings: documents at hand, topics drawn,
                    \* responses the model may give, repair outcomes, clock
                    \* readings, and how far the user goes
    pc,             \* "idle": the page waits for the user; "rerun": the script
                    \* called st.rerun() (or the session just began) and runs next
    event,          \* the widget event that triggered the latest run
    uploaded_file,  \* the value of st.file_uploader
    session_state,  \* st.session_state
    page,           \* what the latest render of each section put on the page
    calls,          \* model.generate_content calls issued, per document key and topic
    input,          \* parse_ai_response alone: its argument
    fence,          \* ... how the argument wraps the payload
    payload,        \* ... the payload text
    repair,         \* ... what repair_json gives for the argument's json_str
    repair_bare,    \* ... what repair_json gives for the bare payload's json_str
    result          \* ... the value returned, NotCalled before the call

vars == <<env, pc, event, uploaded_file, session_state, page, calls,
          input, fence, payload, repair, repair_bare, result>>
app_vars == <<env, pc, event, uploaded_file, session_state, page, calls>>
parse_vars == <<input, fence, payload, repair, repair_bare, result>>

\* attempts in the history log, at most (the session stops submitting there)
MaxHistory == 1
\* presses of New Topic in a session, at most
MaxNewTopic == 1
\* attempts in the log of the session that studies scoring, at most
MaxAttempts == 2
\* attempts in the log of the session that studies the sidebar, at most: more
\* than the sidebar lists
MaxHistoryLong == 6
\* the entries the sidebar lists
RecentCount == 5

NotCalled == [t |-> "not called"]
FirstTopic == {Str(<<CS_TOPICS[1]>>)}
\* a session of uploads: documents with and without text, a model that answers
\* (with a quiz, or with one whose display raises) or fails
EnvUpload ==
    [docs |-> Docs,
     topics |-> FirstTopic,
     text_responses |-> {Str(ResponseShort), Str(ResponseScalar), Raised},
     topic_responses |-> {Raised},
     repairs |-> {Str(<<>>)},
     clock |-> {"09:00"},
     max_history |-> MaxHistory,
     max_new_topic |-> MaxNewTopic]
\* a session of topic quizzes beside one document quiz
EnvTopic ==
    [docs |-> {DocNotes},
     topics |-> Topics,
     text_responses |-> {Str(ResponseShort)},
     topic_responses |-> {Str(ResponseShort), Raised},
     repairs |-> {Str(<<>>)},
     clock |-> {"09:00"},
     max_history |-> MaxHistory,
     max_new_topic |-> MaxNewTopic]
\* a session of answering and scoring: well-formed and ill-formed quizzes
EnvQuiz ==
    [docs |-> {DocNotes},
     topics |-> FirstTopic,
     text_responses |-> {Str(ResponseOdd), Str(ResponseShort)},
     topic_responses |-> {Str(ResponseGood)},
     repairs |-> {Str(<<>>)},
     clock |-> {"09:00"},
     max_history |-> MaxAttempts,
     max_new_topic |-> MaxNewTopic]
\* a session with a long history log
EnvHistory ==
    [docs |-> {DocScan},
     topics |-> FirstTopic,
     text_responses |-> {Raised},
     topic_responses |-> {Str(ResponseGood)},
     repairs |-> {Str(<<>>)},
     clock |-> {"09:00"},
     max_history |-> MaxHistoryLong,
     max_new_topic |-> MaxNewTopic]

History(ss) == ss[K_HISTORY].xs
NoSidebar == [entries |-> <<>>, clear_button |-> FALSE]
BlankPage ==
    [sidebar |-> NoSidebar, pdf |-> NotRendered, auto |-> NotRendered,
     new_topic_button |-> FALSE]

RECURSIVE SumCalls(_, _)
SumCalls(c, keys) ==
    IF keys = {} THEN 0
    ELSE LET k == CHOOSE x \in keys : TRUE IN c[k] + SumCalls(c, keys \ {k})
TopicCallKey(topic) == <<"topic", topic.s[1]>>
CallKeys == {PdfKey(d.hash) : d \in Docs} \cup {TopicCallKey(t) : t \in Topics}
TopicCalls(c) == SumCalls(c, {TopicCallKey(t) : t \in Topics})

\* the state a script run works on, and how its latest section ended: "next"
\* (the script goes on), "rerun" (st.rerun() was called), "raised", "done"
RunState(ss, pg, c, ctl) == [ss |-> ss, page |-> pg, calls |-> c, ctl |-> ctl]

\* a listing of the oldest entries, oldest first: quiz_history[:5]
list_oldest(history, n) ==
    SubSeq(history, 1, IF Len(history) < n THEN Len(history) ELSE n)
\* reversed(quiz_history[-5:])
list_recent(history, n) ==
    LET m == IF Len(history) < n THEN Len(history) ELSE n
    IN [i \in 1..m |-> history[Len(history) + 1 - i]]

\* lines 94-95 and 273-283: the history is created on the first run; the sidebar
\* lists the recent attempts, and a press of Clear empties the log and reruns
Sidebar(st, ev) ==
    LET ss1 == IF InState(st.ss, K_HISTORY) THEN st.ss
               ELSE SetKey(st.ss, K_HISTORY, List(<<>>))
    IN IF Truthy(ss1[K_HISTORY])
       THEN LET pg == [st.page EXCEPT !.sidebar =
                          [entries |-> list_recent(History(ss1), RecentCount),
                           clear_button |-> TRUE]]
            IN IF ev = ClearPress
               THEN RunState(SetKey(ss1, K_HISTORY, List(<<>>)), pg, st.calls, "rerun")
               ELSE RunState(ss1, pg, st.calls, "next")
       ELSE RunState(ss1, [st.page EXCEPT !.sidebar = NoSidebar], st.calls, "next")

\* the times a display call may read: the clock matters only to a submission
Now(ev, key_prefix) ==
    IF ev.kind = "submit" /\ ev.prefix = key_prefix THEN env.clock
    ELSE {CHOOSE c \in env.clock : TRUE}

\* a text check that forgets strip()
has_text_unstripped(text) == text # <<>>
\* line 303: if text.strip()
has_text(text) == Strip(text) # <<>>
\* lines 293-310: the upload section, every way it can go
PdfSection(st, file, ev) ==
    IF file = NoFile
    THEN {RunState(st.ss, [st.page EXCEPT !.pdf = NotRendered], st.calls, "next")}
    ELSE LET file_hash == file.hash
             quiz_key == PdfKey(file_hash)
             text == extract_text_from_pdf(file)
         IN IF ~has_text(text)
            THEN {RunState(st.ss, [st.page EXCEPT !.pdf = View("no text", quiz_key)],
                           st.calls, "next")}
            ELSE LET cached == InState(st.ss, quiz_key)
                     quizzes == IF cached THEN {st.ss[quiz_key]}
                                ELSE {generate_quiz_from_text(r, p) :
                                         r \in env.text_responses, p \in env.repairs}
                     c1 == IF cached THEN st.calls
                           ELSE [st.calls EXCEPT ![quiz_key] = @ + 1]
                 IN {IF d.raised
                     THEN RunState(d.ss,
                                   [st.page EXCEPT !.pdf = d.view,
                                                   !.auto = NotRendered,
                                                   !.new_topic_button = FALSE],
                                   c1, "raised")
                     ELSE RunState(d.ss, [st.page EXCEPT !.pdf = d.view], c1, "next")
                     : d \in {display_interactive_quiz(
                                  SetKey(st.ss, quiz_key, quiz), ev, quiz, quiz_key,
                                  Str(<<"PDF (", file_hash, ")">>), "PDF", now)
                              : quiz \in quizzes, now \in Now(ev, quiz_key)}}

\* a New Topic handler that leaves the answers of the old quiz in place
new_topic_keeps_answers(ss, topic) ==
    PopKey(PopKey(SetKey(ss, K_AUTO_TOPIC, topic), K_AUTO_QUIZ), SubmittedKey(AUTO))
\* lines 318-321: the New Topic handler before its st.rerun()
new_topic(ss, topic) ==
    PopKey(PopKey(PopKey(SetKey(ss, K_AUTO_TOPIC, topic), K_AUTO_QUIZ),
                  SubmittedKey(AUTO)),
           UserAnswersKey(AUTO))
\* lines 313-324: the topic is drawn on the first run; a press of New Topic draws
\* a topic, drops the topic quiz, its submitted flag and its answers, and reruns
AutoTopic(st, ev) ==
    LET pg == [st.page EXCEPT !.new_topic_button = TRUE]
    IN UNION {
         LET ss1 == SetKey(st.ss, K_AUTO_TOPIC, first)
         IN IF ev = NewTopicPress
            THEN {RunState(new_topic(ss1, topic), pg, st.calls, "rerun")
                  : topic \in env.topics}
            ELSE {RunState(ss1, pg, st.calls, "next")}
         : first \in IF InState(st.ss, K_AUTO_TOPIC) THEN {st.ss[K_AUTO_TOPIC]}
                     ELSE env.topics}

\* a check that never finds the cached topic quiz
auto_quiz_stale(ss) == TRUE
\* line 326: if "auto_quiz" not in st.session_state
auto_quiz_missing(ss) == ~InState(ss, K_AUTO_QUIZ)
\* lines 326-330: the topic quiz is generated when none is cached, then displayed
AutoQuiz(st, ev) ==
    LET cached == ~auto_quiz_missing(st.ss)
        topic == st.ss[K_AUTO_TOPIC]
        quizzes == IF cached THEN {st.ss[K_AUTO_QUIZ]}
                   ELSE {generate_quiz_from_topic(r, p) :
                            r \in env.topic_responses, p \in env.repairs}
        c1 == IF cached THEN st.calls
              ELSE [st.calls EXCEPT ![TopicCallKey(topic)] = @ + 1]
    IN {RunState(d.ss, [st.page EXCEPT !.auto = d.view], c1,
                 IF d.raised THEN "raised" ELSE "done")
        : d \in {display_interactive_quiz(SetKey(st.ss, K_AUTO_QUIZ, quiz), ev, quiz,
                                          AUTO, topic, "Auto", now)
                 : quiz \in quizzes, now \in Now(ev, AUTO)}}

\* one run of the script from its top, with the uploader holding file and the
\* widget event ev: every state it can end in
ScriptRun(st, file, ev) ==
    LET a == Sidebar(st, ev)
    IN IF a.ctl = "rerun" THEN {a}
       ELSE UNION {
              IF b.ctl = "raised" THEN {b}
              ELSE UNION {IF c.ctl = "rerun" THEN {c} ELSE AutoQuiz(c, ev)
                          : c \in AutoTopic(b, ev)}
              : b \in PdfSection(a, file, ev)}

AppInit(e) ==
    /\ env = e
    /\ pc = "rerun"
    /\ event = NoEvent
    /\ uploaded_file = NoFile
    /\ session_state = <<>>
    /\ page = BlankPage
    /\ calls = [k \in CallKeys |-> 0]
ParseIdle ==
    /\ input = None /\ fence = "none" /\ payload = <<>>
    /\ repair = Raised /\ repair_bare = Raised /\ result = NotCalled

\* one script run with the uploader holding file, triggered by the widget event
\* ev: from its top to the page it leaves or to st.rerun()
Run(file, ev) ==
    /\ \E o \in ScriptRun(RunState(session_state, page, calls, "next"), file, ev) :
          /\ session_state' = o.ss
          /\ page' = o.page
          /\ calls' = o.calls
          /\ pc' = IF o.ctl = "rerun" THEN "rerun" ELSE "idle"
    /\ uploaded_file' = file
    /\ event' = ev
    /\ UNCHANGED <<env, parse_vars>>

\* the first run of the session and the run after st.rerun(): no widget event
Rerun ==
    /\ pc = "rerun"
    /\ Run(uploaded_file, NoEvent)

\* the user uploads a document or removes the uploaded one
UploadFile ==
    /\ pc = "idle"
    /\ \E f \in (env.docs \cup {NoFile}) \ {uploaded_file} : Run(f, NoEvent)

\* the user presses Clear, which is on the page when the sidebar listed attempts
PressClear ==
    /\ pc = "idle"
    /\ page.sidebar.clear_button
    /\ Run(uploaded_file, ClearPress)

\* the user presses New Topic
PressNewTopic ==
    /\ pc = "idle"
    /\ page.new_topic_button
    /\ TopicCalls(calls) <= env.max_new_topic
    /\ Run(uploaded_file, NewTopicPress)

\* the user presses the submit button of a quiz that is on the page
PressSubmit ==
    /\ pc = "idle"
    /\ Len(History(session_state)) < env.max_history
    /\ \E v \in {page.pdf, page.auto} :
          /\ v.submit
          /\ Run(uploaded_file, SubmitPress(v.prefix))

\* the user picks another option of a radio that is on the page
SelectOption ==
    /\ pc = "idle"
    /\ \E v \in {page.pdf, page.auto} :
       \E i \in v.radios :
       \E j \in 1..Len(v.choices[i]) :
          /\ v.choices[i][j] # session_state[UserAnswersKey(v.prefix)].xs[i]
          /\ Run(uploaded_file, Select(v.prefix, i, v.choices[i][j]))

Next ==
    \/ Rerun
    \/ UploadFile
    \/ PressClear
    \/ PressNewTopic
    \/ PressSubmit
    \/ SelectOption

(***************************************************************************)
(* parse_ai_response on its own: a payload text, handed over bare, in a    *)
(* JSON-tagged fence or in a generic fence, and values that are no text    *)
(***************************************************************************)
\* a top-level array of one question
PayloadArray ==
    ArrayText(<<QuestionText("True/False", <<"True", "False">>, Quoted("False"))>>)
\* an object that carries the questions key
PayloadObject == ObjectText(<<Member("questions", PayloadArray)>>)
\* an object without the questions key, and an empty one
PayloadValues == ObjectText(<<Member("a", <<"1">>), Member("b", <<"null">>)>>)
PayloadEmptyObject == ObjectText(<<>>)
\* a top-level array whose one string holds fence markers
PayloadFenceInString == ArrayText(<<<<QUOTE, "a", FENCE, "[", "]", FENCE, QUOTE>>>>)
Payloads ==
    {PayloadArray, PayloadObject, PayloadValues, PayloadEmptyObject,
     PayloadFenceInString, ResponseScalar, ResponseProse, <<"null">>, <<"1">>,
     <<>>, <<SP, NL>>}
\* arguments that are no text
NonText == {None, Num(1), List(<<>>)}
FenceKinds == {"none", "json", "generic"}
Wrapped(kind, text) ==
    CASE kind = "json" -> InJsonFence(text)
      [] kind = "generic" -> InGenericFence(text)
      [] OTHER -> text

\* line 132: repair_json is a function of the text it is given, so an argument
\* whose json_str is that of the bare payload gets the same outcome as the payload
RepairFor(response_text) ==
    IF extract_json_str(response_text) = extract_json_str(payload) THEN repair_bare
    ELSE repair

ParseStart ==
    /\ payload \in Payloads
    /\ repair \in RepairOutcomes
    /\ repair_bare \in RepairOutcomes
    /\ input = None /\ fence = "none" /\ result = NotCalled

\* parse_ai_response(the payload in a fence of the kind)
Call(kind) ==
    /\ input' = Str(Wrapped(kind, payload))
    /\ result' = parse_ai_response(input', RepairFor(input'.s))
    /\ UNCHANGED <<payload, repair, repair_bare, app_vars>>
ParseBare ==
    /\ fence' = "none"
    /\ Call("none")
ParseJsonFenced ==
    /\ fence' = "json"
    /\ Call("json")
ParseGenericFenced ==
    /\ fence' = "generic"
    /\ Call("generic")
\* parse_ai_response(a value that is no text)
ParseNonText ==
    /\ \E v \in NonText :
          /\ input' = v
          /\ result' = parse_ai_response(v, repair)
    /\ fence' = "none"
    /\ UNCHANGED <<payload, repair, repair_bare, app_vars>>
NextParse ==
    \/ ParseBare
    \/ ParseJsonFenced
    \/ ParseGenericFenced
    \/ ParseNonText

Init == AppInit(EnvUpload) /\ ParseIdle
InitParse == AppInit(EnvUpload) /\ ParseStart
InitTopic == AppInit(EnvTopic) /\ ParseIdle
InitQuiz == AppInit(EnvQuiz) /\ ParseIdle
InitHistory == AppInit(EnvHistory) /\ ParseIdle
Spec == Init /\ [][Next]_vars
SpecTopic == InitTopic /\ [][Next]_vars
SpecQuiz == InitQuiz /\ [][Next]_vars
SpecHistory == InitHistory /\ [][Next]_vars
SpecParse == InitParse /\ [][NextParse]_vars

(***************************************************************************)
(* Properties of parse_ai_response, under SpecParse                        *)
(***************************************************************************)
\* C1: parse_ai_response returns for every argument (a text, the empty text, a
\* value that is no text), and what it returns is a dict with a questions key
\* whose value is a sequence, also when the parsed dict carried the key itself.
C1_QuestionsIsSequence ==
    result # NotCalled =>
        /\ IsDict(result)
        /\ HasKey(result, K_QUESTIONS)
        /\ IsList(Get(result, K_QUESTIONS, None))

\* the payload is valid JSON with a top-level array
IsTopLevelArray(text) == json_loads(text).ok /\ IsList(json_loads(text).val)
\* C7: the payload in a JSON-tagged or a generic fence normalizes to what the bare
\* payload normalizes to, and a payload that is a top-level array (fence markers
\* in its strings or not) gives that array, element for element, as questions.
C7_FenceInvariance ==
    (result # NotCalled /\ IsStr(input)) =>
        /\ result = parse_ai_response(Str(payload), repair_bare)
        /\ IsTopLevelArray(payload) =>
               result = Dict(<<Item(K_QUESTIONS, json_loads(payload).val)>>)

\* the value lines 129-132 parsed from the argument of the latest call
ParsedOfInput == parsed_value(extract_json_str(input.s), RepairFor(input.s))
\* C8: whatever the strict parse or the repair gave: a sequence s is returned as
\* {questions: s}; a dict with the questions key as it is; a dict without the
\* key that is not empty as {questions: its values in order}; an empty dict and
\* every other value as {questions: []}.
C8_ShapeNormalization ==
    (result # NotCalled /\ IsStr(input)) =>
        CASE IsList(ParsedOfInput) ->
                 result = Dict(<<Item(K_QUESTIONS, ParsedOfInput)>>)
          [] IsDict(ParsedOfInput) /\ HasKey(ParsedOfInput, K_QUESTIONS) ->
                 result = ParsedOfInput
          [] IsDict(ParsedOfInput) /\ ~HasKey(ParsedOfInput, K_QUESTIONS)
                                   /\ Len(ParsedOfInput.kv) > 0 ->
                 result = Dict(<<Item(K_QUESTIONS,
                                     List([i \in 1..Len(ParsedOfInput.kv) |->
                                              ParsedOfInput.kv[i].v]))>>)
          [] OTHER -> result = EmptyQuiz
\* the values of {"a": 1, "b": null} in a JSON-tagged fence became the questions
C8_Witness ==
    /\ payload = PayloadValues
    /\ fence = "json"
    /\ result = Dict(<<Item(K_QUESTIONS, List(<<Num(1), None>>))>>)

(***************************************************************************)
(* Properties of the quiz session, under SpecQuiz                          *)
(***************************************************************************)
Views == {page.pdf, page.auto}
\* the quiz of the instance a key prefix names, and its questions
QuizOf(ss, key_prefix) == IF key_prefix = AUTO THEN ss[K_AUTO_QUIZ] ELSE ss[key_prefix]
QuestionsOf(ss, key_prefix) ==
    Elements(Get(QuizOf(ss, key_prefix), K_QUESTIONS, List(<<>>)))
AnswersOf(ss, key_prefix) == ss[UserAnswersKey(key_prefix)].xs
\* the indexes whose stored answer equals the canonical answer
Matching(questions, answers) ==
    {i \in 1..Len(questions) : answers[i] = Get(questions[i], K_ANSWER, Str(<<>>))}
IsSubmitted(ss, key_prefix) ==
    InState(ss, SubmittedKey(key_prefix)) /\ ss[SubmittedKey(key_prefix)] = Bool(TRUE)
\* the options of q are not as many as its declared type asks: 4 for an MCQ, 2
\* for a True/False question
WrongCardinality(q) ==
    \/ /\ Get(q, K_TYPE, None) = MCQ
       /\ Len(Get(q, K_OPTIONS, List(<<>>)).xs) # McqOptionCount
    \/ /\ Get(q, K_TYPE, None) = TRUE_FALSE
       /\ Len(Get(q, K_OPTIONS, List(<<>>)).xs) # Len(TrueFalseOptions)

\* C2: a question whose options have the wrong cardinality for its type has no
\* answer widget on the page, its stored answer stays unset, and it is not
\* counted correct, whatever its answer field holds.
C2_WrongCardinalityNeverCounts ==
    pc = "idle" =>
        \A v \in Views : v.status = "quiz" =>
            \A i \in 1..Len(QuestionsOf(session_state, v.prefix)) :
                WrongCardinality(QuestionsOf(session_state, v.prefix)[i]) =>
                    /\ i \notin v.radios
                    /\ AnswersOf(session_state, v.prefix)[i] = None
                    /\ i \notin Matching(QuestionsOf(session_state, v.prefix),
                                         AnswersOf(session_state, v.prefix))

\* the topic string the attempts of an instance carry
TopicOf(ss, key_prefix) ==
    IF key_prefix = AUTO THEN ss[K_AUTO_TOPIC] ELSE Str(<<"PDF (", key_prefix[2], ")">>)
\* the position in the log of the latest attempt on the instance, 0 when none
LatestAttempt(ss, key_prefix) ==
    Least({i \in 1..Len(History(ss)) :
              /\ Get(History(ss)[i], <<"topic">>, None) = TopicOf(ss, key_prefix)
              /\ \A j \in (i + 1)..Len(History(ss)) :
                     Get(History(ss)[j], <<"topic">>, None) # TopicOf(ss, key_prefix)})
\* C3: a submitted instance on the page shows its feedback, and the score it
\* shows is the score its latest Attempt in the log recorded at submission,
\* whatever the user did on the instance since.
C3_ScoreFrozen ==
    pc = "idle" =>
        \A v \in Views : (v.status = "quiz" /\ IsSubmitted(session_state, v.prefix)) =>
            /\ v.feedback
            /\ LatestAttempt(session_state, v.prefix) # 0 =>
                   Str(v.score) = Get(History(session_state)[
                                          LatestAttempt(session_state, v.prefix)],
                                      <<"score">>, None)

Prefixes == {AUTO} \cup {PdfKey(d.hash) : d \in Docs}
\* C4: a press of submit on an instance with n questions appends one Attempt to
\* the end of the log, its score k/n with k the number of indexes whose stored
\* answer equals the canonical answer, and sets the submitted flag; the attempts
\* already in the log keep their place and their fields, then and in every step
\* that is not a clear.
C4_SubmitAppendsOneAttempt ==
    [][/\ \A p \in Prefixes : event' = SubmitPress(p) =>
             /\ Len(History(session_state')) = Len(History(session_state)) + 1
             /\ Get(History(session_state')[Len(History(session_state'))],
                    <<"score">>, None)
                  = ScoreStr(Cardinality(Matching(QuestionsOf(session_state, p),
                                                  AnswersOf(session_state, p))),
                             Len(QuestionsOf(session_state, p)))
             /\ IsSubmitted(session_state', p)
       /\ (InState(session_state, K_HISTORY) /\ event' # ClearPress) =>
             /\ Len(History(session_state')) >= Len(History(session_state))
             /\ SubSeq(History(session_state'), 1, Len(History(session_state)))
                  = History(session_state)
      ]_vars
\* the second submission of a session scored one of the two questions of the
\* document quiz
C4_Witness ==
    /\ event.kind = "submit"
    /\ event.prefix = PdfKey(DocNotes.hash)
    /\ Len(History(session_state)) = MaxAttempts
    /\ Get(History(session_state)[MaxAttempts], <<"score">>, None) = ScoreStr(1, 2)

(***************************************************************************)
(* Properties of the upload section, under Spec                            *)
(***************************************************************************)
\* the extracted text is empty or holds whitespace only
Blank(text) == \A i \in 1..Len(text) : text[i] \in Whitespace
\* C5: a document key gets at most one generation call in a session, and none
\* when the text of the document is blank; the call leaves a quiz under the key
\* (the empty one when it failed), and no later upload or rerun changes that
\* quiz or issues another call for the key.
C5_OneGenerationPerDocument ==
    /\ [](\A d \in Docs :
             /\ calls[PdfKey(d.hash)] <= 1
             /\ Blank(extract_text_from_pdf(d)) => calls[PdfKey(d.hash)] = 0
             /\ calls[PdfKey(d.hash)] = 1 <=> InState(session_state, PdfKey(d.hash)))
    /\ [][\A d \in Docs : InState(session_state, PdfKey(d.hash)) =>
             /\ InState(session_state', PdfKey(d.hash))
             /\ session_state'[PdfKey(d.hash)] = session_state[PdfKey(d.hash)]
             /\ calls'[PdfKey(d.hash)] = calls[PdfKey(d.hash)]]_vars
\* the notes are on the page again after the slides were uploaded and submitted
\* in between, the generation of the slides quiz having failed or not
C5_Witness ==
    /\ pc = "idle"
    /\ uploaded_file = DocNotes
    /\ IsSubmitted(session_state, PdfKey(DocNotes.hash))
    /\ Len(History(session_state)) = 1
    /\ Get(History(session_state)[1], <<"topic">>, None)
         = TopicOf(session_state, PdfKey(DocSlides.hash))
    /\ calls[PdfKey(DocNotes.hash)] = 1
    /\ calls[PdfKey(DocSlides.hash)] = 1

(***************************************************************************)
(* Properties of the topic quiz section, under SpecTopic                   *)
(***************************************************************************)
\* C6, as stated: over any presses of New Topic and any reruns, no topic gets
\* more than one generation call.
C6_OncePerTopicKey == \A t \in Topics : calls[TopicCallKey(t)] <= 1
\* C6, amended: the topic quiz is generated once per topic instance. A run that
\* finds a cached topic quiz issues no call and keeps that quiz, unless New Topic
\* was pressed; a press of New Topic drops the cached quiz without a call; the
\* run that then finds none issues exactly one call, for the topic drawn.
C6_OncePerTopicInstance ==
    [][/\ (InState(session_state, K_AUTO_QUIZ) /\ event' # NewTopicPress) =>
             /\ \A t \in Topics : calls'[TopicCallKey(t)] = calls[TopicCallKey(t)]
             /\ InState(session_state', K_AUTO_QUIZ)
             /\ session_state'[K_AUTO_QUIZ] = session_state[K_AUTO_QUIZ]
       /\ event' = NewTopicPress =>
             /\ ~InState(session_state', K_AUTO_QUIZ)
             /\ calls' = calls
       /\ (~InState(session_state, K_AUTO_QUIZ) /\ InState(session_state', K_AUTO_QUIZ)) =>
             \A t \in Topics :
                 calls'[TopicCallKey(t)] =
                     calls[TopicCallKey(t)]
                     + (IF session_state'[K_AUTO_TOPIC] = t THEN 1 ELSE 0)
      ]_vars
\* New Topic drew a topic again, and its quiz was generated a second time
C6_Witness ==
    /\ pc = "idle"
    /\ InState(session_state, K_AUTO_QUIZ)
    /\ calls[TopicCallKey(session_state[K_AUTO_TOPIC])] = 2

\* the keys of session state that belong to document instances
IsDocKey(key) == key[1] = "pdf"
\* C10: a press of New Topic leaves the topic instance without quiz, answers and
\* submitted flag, and leaves the history log and every key of every document
\* instance as they were; the run after it generates a quiz with one call, shows
\* it unsubmitted, and creates answers as many as the new quiz has questions.
C10_NewTopicResetsOnlyTopic ==
    [][/\ event' = NewTopicPress =>
             /\ ~InState(session_state', K_AUTO_QUIZ)
             /\ ~InState(session_state', UserAnswersKey(AUTO))
             /\ ~InState(session_state', SubmittedKey(AUTO))
             /\ session_state'[K_HISTORY] = session_state[K_HISTORY]
             /\ \A key \in DOMAIN session_state \cup DOMAIN session_state' :
                    IsDocKey(key) =>
                        /\ key \in DOMAIN session_state \cap DOMAIN session_state'
                        /\ session_state'[key] = session_state[key]
       /\ (event = NewTopicPress /\ pc = "rerun"
             /\ InState(session_state', K_AUTO_QUIZ)) =>
             /\ TopicCalls(calls') = TopicCalls(calls) + 1
             /\ ~InState(session_state', SubmittedKey(AUTO))
             /\ ~page'.auto.feedback
             /\ IF QuestionsOf(session_state', AUTO) = <<>>
                THEN ~InState(session_state', UserAnswersKey(AUTO))
                ELSE Len(AnswersOf(session_state', AUTO))
                         = Len(QuestionsOf(session_state', AUTO))
      ]_vars
\* New Topic was pressed with a submitted document quiz on the page and its
\* attempt in the log
C10_Witness ==
    /\ pc = "rerun"
    /\ event = NewTopicPress
    /\ uploaded_file = DocNotes
    /\ IsSubmitted(session_state, PdfKey(DocNotes.hash))
    /\ InState(session_state, UserAnswersKey(PdfKey(DocNotes.hash)))
    /\ Len(History(session_state)) = 1

(***************************************************************************)
(* Properties of the history log, under SpecHistory                        *)
(***************************************************************************)
\* the log a run starts from: empty before the first run created it
LogOf(ss) == IF InState(ss, K_HISTORY) THEN History(ss) ELSE <<>>
Shown(n) == IF n < RecentCount THEN n ELSE RecentCount
\* C9: every run lists the last 5 attempts of the log it starts from, or all of
\* them when they are fewer, the most recent first, and listing changes nothing;
\* a press of Clear empties the log and the run after it lists nothing; a
\* submission appends one Attempt scored from the quiz and the answers of the
\* instance, so after a clear the log holds that Attempt and nothing else.
C9_ClearAndListing ==
    [][/\ Len(page'.sidebar.entries) = Shown(Len(LogOf(session_state)))
       /\ \A i \in 1..Shown(Len(LogOf(session_state))) :
             page'.sidebar.entries[i]
                 = LogOf(session_state)[Len(LogOf(session_state)) + 1 - i]
       /\ event'.kind \notin {"clear", "submit"} =>
             History(session_state') = LogOf(session_state)
       /\ event' = ClearPress =>
             /\ LogOf(session_state) # <<>>
             /\ History(session_state') = <<>>
             /\ pc' = "rerun"
       /\ (event = ClearPress /\ pc = "rerun") =>
             /\ page'.sidebar.entries = <<>>
             /\ ~page'.sidebar.clear_button
             /\ History(session_state') = <<>>
       /\ \A p \in Prefixes : event' = SubmitPress(p) =>
             \E now \in env.clock :
                 History(session_state') =
                     Append(LogOf(session_state),
                            Attempt(IF p = AUTO THEN "Auto" ELSE "PDF",
                                    TopicOf(session_state, p),
                                    ScoreStr(Cardinality(Matching(
                                                 QuestionsOf(session_state, p),
                                                 AnswersOf(session_state, p))),
                                             Len(QuestionsOf(session_state, p))),
                                    now))
      ]_vars
\* Clear was pressed on a log of which the sidebar listed the last 5 attempts
C9_Witness ==
    /\ pc = "rerun"
    /\ event = ClearPress
    /\ History(session_state) = <<>>
    /\ Len(page.sidebar.entries) = RecentCount
    /\ IsSubmitted(session_state, AUTO)

====
